---- MODULE Spec2Model ----
(***************************************************************************)
(* A model of the komb parser-combinator library.                          *)
(*                                                                         *)
(* The input buffer is a sequence of characters; every character has a    *)
(* UTF-8 encoding of one or two bytes.  A string slice (&str) is a pair    *)
(* of byte offsets into the buffer, as a Rust slice is a pointer and a     *)
(* length into the caller's buffer.  Slicing at an offset which is not a   *)
(* character boundary panics, as str indexing does.                        *)
(***************************************************************************)
EXTENDS Integers, Sequences, FiniteSets, TLC

\* ------------------------------------------------------------------ bounds
\* Longest enumerated input buffer, in characters.
MaxLen == 3
\* Cap on the number of iterations the model follows a fold loop beyond one
\* iteration per character of the input.
MaxFoldIter == 2
\* Largest number of alternatives of a choice and of steps of a tuple.
MaxArity == 2
\* Largest length given to take.
MaxTake == 2
\* The longest collection given to Error::new and the deepest Error stack built.
MaxStack == 2
\* The deepest nesting of with_context / with_message wrappers.
MaxNest == 2
\* The width of usize in bits (every address and length is below half of it).
UsizeBits == 7
\* The largest start or end given to the Span constructors, beside usize::MAX.
MaxSpan == 2
\* Longest input, in characters, of the calls of one fold parser which are
\* followed by another call of that same parser.
MaxAgain == 1

\* --------------------------------------------------------------- alphabet
\* Characters the enumerated inputs are built of.  "o_uml" (U+00F6) and
\* "O_UML" (U+00D6) are encoded on two bytes, everything else on one.
Alphabet == {"a", "(", ")", "o_uml"}

\* Characters which appear only in the documented example inputs.
ExampleChars ==
    {"w", "o", "r", "d", " ", "e", "s", "t", "b", "c", "x", "l", "i", "u", "n"}

\* Characters which appear only in the inputs about letter case.
CaseChars == {"A", "O_UML"}

\* The decimal digits.
DecDigits == {"0", "1", "2", "3", "4", "5", "6", "7", "8", "9"}

\* The other characters of the number literals, in both cases.
FloatChars ==
    {".", "+", "-", "n", "f", "y", "E", "I", "N", "F", "T", "Y"}

\* The other characters of the quoted strings: the double quote, the
\* backslash, and the rest of the letters of the documented example.
StringChars == {"dquote", "bslash", "/", "g", "h", "p"}

AllChars ==
    Alphabet \cup ExampleChars \cup CaseChars \cup DecDigits \cup FloatChars
        \cup StringChars

\* char::to_digit(10) of a decimal digit
to_digit(ch) ==
    CASE ch = "0" -> 0 [] ch = "1" -> 1 [] ch = "2" -> 2 [] ch = "3" -> 3
      [] ch = "4" -> 4 [] ch = "5" -> 5 [] ch = "6" -> 6 [] ch = "7" -> 7
      [] ch = "8" -> 8 [] ch = "9" -> 9

\* char::len_utf8
len_utf8(ch) == IF ch \in {"o_uml", "O_UML"} THEN 2 ELSE 1

\* The UTF-8 bytes of a character: U+00F6 is C3 B6, U+00D6 is C3 96.
Utf8(ch) ==
    IF ch = "o_uml" THEN <<"C3", "B6">>
    ELSE IF ch = "O_UML" THEN <<"C3", "96">>
    ELSE <<ch>>

\* char::to_ascii_lowercase: only ASCII letters are folded.
to_ascii_lowercase(ch) ==
    CASE ch = "A" -> "a" [] ch = "E" -> "e" [] ch = "F" -> "f"
      [] ch = "I" -> "i" [] ch = "N" -> "n" [] ch = "T" -> "t"
      [] ch = "Y" -> "y" [] OTHER -> ch

\* char::is_alphabetic
is_alphabetic(ch) ==
    ch \in {"a", "A", "o_uml", "O_UML", "w", "o", "r", "d", "e", "s", "t", "b",
            "c", "x", "l", "i", "u", "n", "f", "y", "E", "I", "N", "F", "T",
            "Y", "g", "h", "p"}

\* The bytes of a sequence of characters (str::as_bytes).
RECURSIVE Encode(_)
Encode(chars) ==
    IF chars = <<>> THEN <<>>
    ELSE Utf8(Head(chars)) \o Encode(Tail(chars))

\* str::len of a literal: its length in bytes.
RECURSIVE ByteLen(_)
ByteLen(chars) ==
    IF chars = <<>> THEN 0
    ELSE len_utf8(Head(chars)) + ByteLen(Tail(chars))


\* ------------------------------------------------------------------ state
VARIABLES
    buf,        \* the input buffer owned by the caller: a sequence of chars
    parser,     \* the parser of the call in progress or last finished
    pc,         \* "ready", "fold" (inside the fold loop) or "done"
    result,     \* the outcome of the last finished call
    acc,        \* fold: the accumulator of the running loop
    cur         \* fold: the remaining input of the running loop

vars == <<buf, parser, pc, result, acc, cur>>

\* ----------------------------------------------------------------- slices
\* The bytes of the whole buffer.
BufBytes == Encode(buf)

\* The slice which covers the whole buffer.
Whole == [s |-> 0, e |-> Len(BufBytes)]

\* str::len of a slice.
SLen(sl) == sl.e - sl.s

\* The bytes a slice points to.
Bytes(sl) == SubSeq(BufBytes, sl.s + 1, sl.e)

\* str::is_char_boundary at an absolute offset of the buffer: the start, the
\* end, or a byte which is not a UTF-8 continuation byte.
is_char_boundary(i) ==
    \/ i = 0
    \/ i = Len(BufBytes)
    \/ /\ i > 0
       /\ i < Len(BufBytes)
       /\ BufBytes[i + 1] \notin {"B6", "96"}

\* Whether &input[i..j] is a valid index expression (it panics otherwise).
CanIndex(input, i, j) ==
    /\ i <= j
    /\ j <= SLen(input)
    /\ is_char_boundary(input.s + i)
    /\ is_char_boundary(input.s + j)

\* &input[i..j], offsets relative to the start of input.
Index(input, i, j) == [s |-> input.s + i, e |-> input.s + j]

\* str::char_indices: the characters of a slice with their byte offsets
\* relative to the start of the slice.
RECURSIVE CharIndicesFrom(_, _, _)
CharIndicesFrom(k, off, input) ==
    IF k > Len(buf) THEN <<>>
    ELSE LET ch == buf[k]
             more == CharIndicesFrom(k + 1, off + len_utf8(ch), input)
         IN  IF off >= input.s /\ off < input.e
             THEN <<[i |-> off - input.s, ch |-> ch]>> \o more
             ELSE more

char_indices(input) == CharIndicesFrom(1, 0, input)

\* str::starts_with for a literal given as its characters.
starts_with(input, lit) ==
    /\ ByteLen(lit) <= SLen(input)
    /\ SubSeq(Bytes(input), 1, ByteLen(lit)) = Encode(lit)

\* --------------------------------------------------------------- outcomes
\* PResult: Ok((out, rest)), Err(error), or a panic which aborts the call.
Ok(out, rest) == [kind |-> "Ok", out |-> out, rest |-> rest, calls |-> <<>>]
Panic == [kind |-> "Panic", calls |-> <<>>]

\* ptr::null()
Null == -1

\* impl From<E> for Context: no location, the error boxed as the message.
ContextFromError(e) == [offset |-> Null, length |-> 0, message |-> e]

\* Context::from_message
from_message(msg) ==
    [offset |-> Null, length |-> 0,
     message |-> [kind |-> "Message", text |-> msg]]

\* impl From<E> for Error: a stack whose only entry is the cause.
ErrorFrom(e) == <<ContextFromError(e)>>

\* Error::with_context: push one Context on the stack.
with_context(stack, ctx) == Append(stack, ctx)

Err(e) == [kind |-> "Err", err |-> ErrorFrom(e), calls |-> <<>>]

\* string::Error::end: a zero-width span at the end of input.
ErrorEnd(input) ==
    [kind |-> "End", span |-> Index(input, SLen(input), SLen(input))]

\* string::Error::unmatched
ErrorUnmatched(span) == [kind |-> "Unmatched", span |-> span]

\* &input[..i] and &input[i..] as an (output, rest) pair; the index
\* expressions panic when i is not a character boundary of input.
Split(input, i) ==
    IF CanIndex(input, 0, i)
    THEN Ok(Index(input, 0, i), Index(input, i, SLen(input)))
    ELSE Panic

\* Err(Error::unmatched(&input[..i]))
Unmatched(input, i) ==
    IF CanIndex(input, 0, i)
    THEN Err(ErrorUnmatched(Index(input, 0, i)))
    ELSE Panic

\* The least element of a non-empty set of integers.
Min(S) == CHOOSE x \in S : \A y \in S : x <= y

\* ------------------------------------------------------- primitive matchers
\* A predicate Fn(char) -> bool is the set of characters it accepts.

\* The literal matcher with the length taken in characters, not bytes.
literal_charlen(self, input) ==
    IF starts_with(input, self)
    THEN LET length == Len(self) IN Split(input, length)
    ELSE IF SLen(input) < ByteLen(self)
    THEN Err(ErrorEnd(input))
    ELSE Unmatched(input, ByteLen(self))

\* impl Parser for &str: the literal matcher.
literal(self, input) ==
    IF starts_with(input, self)
    THEN LET length == ByteLen(self) IN Split(input, length)
    ELSE IF SLen(input) < ByteLen(self)
    THEN Err(ErrorEnd(input))
    ELSE Unmatched(input, ByteLen(self))

\* A matcher which compares the characters as they are.
anycase_exact(lit, input) ==
    LET length == ByteLen(lit)
        cs == char_indices(input)
        stop == {k \in 1..Len(lit) : k > Len(cs) \/ lit[k] # cs[k].ch}
    IN  IF stop = {} THEN Split(input, length)
        ELSE LET k == Min(stop)
             IN  IF k > Len(cs) THEN Err(ErrorEnd(input))
                 ELSE Unmatched(input, cs[k].i + len_utf8(cs[k].ch))

\* string::anycase
anycase(lit, input) ==
    LET length == ByteLen(lit)
        cs == char_indices(input)
        \* the iterations of the loop which return an error
        stop == {k \in 1..Len(lit) :
                    \/ k > Len(cs)
                    \/ to_ascii_lowercase(lit[k]) # to_ascii_lowercase(cs[k].ch)}
    IN  IF stop = {} THEN Split(input, length)
        ELSE LET k == Min(stop)
             IN  IF k > Len(cs) THEN Err(ErrorEnd(input))
                 ELSE Unmatched(input, cs[k].i + len_utf8(cs[k].ch))

\* string::char
char(f, input) ==
    LET cs == char_indices(input)
    IN  IF cs = <<>> THEN Err(ErrorEnd(input))
        ELSE LET ch == cs[1].ch
                 lenght == len_utf8(ch)
             IN  IF ch \in f THEN Split(input, lenght)
                 ELSE Unmatched(input, lenght)

\* string::take
take(length, input) ==
    LET cs == char_indices(input)
        \* current_length is k after the k-th character
        hit == {k \in 1..Len(cs) : k = length}
    IN  IF hit # {}
        THEN LET k == Min(hit)
                 split == cs[k].i + len_utf8(cs[k].ch)
             IN  Split(input, split)
        ELSE Err(ErrorEnd(input))

\* string::take_while
take_while(f, input) ==
    LET cs == char_indices(input)
        bad == {k \in 1..Len(cs) : cs[k].ch \notin f}
    IN  IF bad # {}
        THEN LET k == Min(bad)
                 at_least_one == k > 1
             IN  IF at_least_one THEN Split(input, cs[k].i)
                 ELSE Err(ErrorEnd(input))
        ELSE LET at_least_one == Len(cs) > 0
                 index == IF cs = <<>> THEN 0
                          ELSE cs[Len(cs)].i + len_utf8(cs[Len(cs)].ch)
             IN  IF at_least_one THEN Split(input, index)
                 ELSE Err(ErrorEnd(input))

\* take_while0 which drops the first character failing the predicate.
take_while0_skip(f, input) ==
    LET cs == char_indices(input)
        bad == {k \in 1..Len(cs) : cs[k].ch \notin f}
    IN  IF bad # {}
        THEN LET k == Min(bad)
                 j == cs[k].i + len_utf8(cs[k].ch)
             IN  IF CanIndex(input, 0, cs[k].i) /\ CanIndex(input, j, SLen(input))
                 THEN Ok(Index(input, 0, cs[k].i), Index(input, j, SLen(input)))
                 ELSE Panic
        ELSE LET index == IF cs = <<>> THEN 0
                          ELSE cs[Len(cs)].i + len_utf8(cs[Len(cs)].ch)
             IN  IF CanIndex(input, index, SLen(input)) /\ CanIndex(input, 0, index)
                 THEN Ok(Index(input, index, SLen(input)), Index(input, 0, index))
                 ELSE Panic

\* str::take_while0
take_while0(f, input) ==
    LET cs == char_indices(input)
        bad == {k \in 1..Len(cs) : cs[k].ch \notin f}
    IN  IF bad # {}
        THEN LET i == cs[Min(bad)].i IN Split(input, i)
        ELSE LET index == IF cs = <<>> THEN 0
                          ELSE cs[Len(cs)].i + len_utf8(cs[Len(cs)].ch)
             IN  IF CanIndex(input, index, SLen(input)) /\ CanIndex(input, 0, index)
                 THEN Ok(Index(input, index, SLen(input)), Index(input, 0, index))
                 ELSE Panic

\* ------------------------------------------------------------- combinators
\* A parser is a record naming its constructor and its arguments; parse
\* applies it to an input slice (Parser::parse).
RECURSIVE parse(_, _)

\* string::consume
consume(p, input) ==
    LET r == parse(p, input)
    IN  IF r.kind # "Ok" THEN r
        ELSE LET start == input.s
                 end == r.rest.s
             IN  IF ~(start < end) THEN Panic
                 ELSE LET length == end - start
                      IN  IF ~(length <= SLen(input)) THEN Panic
                          ELSE Split(input, length)

\* string::or0
or0(p, input) ==
    LET r == parse(p, input)
    IN  IF r.kind = "Err" THEN Ok(Index(input, 0, 0), input)
        ELSE r

\* Option<O>
Some(out) == [some |-> TRUE, v |-> out]
None == [some |-> FALSE]

\* optional which propagates the failure of the inner parser.
optional_propagate(p, input) ==
    LET r == parse(p, input)
    IN  IF r.kind = "Ok" THEN Ok(Some(r.out), r.rest)
        ELSE r

\* combinator::optional (and the older combinator::option)
optional(p, input) ==
    LET r == parse(p, input)
    IN  IF r.kind = "Ok" THEN Ok(Some(r.out), r.rest)
        ELSE IF r.kind = "Err" THEN Ok(None, input)
        ELSE r

\* A choice which goes on after a success and prefers a later one.
RECURSIVE choice_from_last(_, _, _, _)
choice_from_last(ps, k, input, calls) ==
    LET r == parse(ps[k], input)
        log == Append(calls, [index |-> k, input |-> input])
    IN  IF r.kind = "Panic" THEN [Panic EXCEPT !.calls = log]
        ELSE IF k = Len(ps) THEN [r EXCEPT !.calls = log]
        ELSE LET later == choice_from_last(ps, k + 1, input, log)
             IN  IF later.kind = "Ok" \/ r.kind # "Ok" THEN later
                 ELSE [r EXCEPT !.calls = later.calls]

\* impl_choice: the alternatives from the k-th on, all applied to input.
\* calls records which alternative was applied to which slice.
RECURSIVE choice_from(_, _, _, _)
choice_from(ps, k, input, calls) ==
    LET r == parse(ps[k], input)
        log == Append(calls, [index |-> k, input |-> input])
    IN  IF r.kind = "Panic" THEN [Panic EXCEPT !.calls = log]
        ELSE IF k = Len(ps) THEN [r EXCEPT !.calls = log]
        ELSE IF r.kind = "Ok" THEN [r EXCEPT !.calls = log]
        ELSE choice_from(ps, k + 1, input, log)

\* A choice which reports the failure of its first alternative.
choice_first_error(ps, input) ==
    LET r == choice_from(ps, 1, input, <<>>)
        first == parse(ps[1], input)
    IN  IF r.kind = "Err" /\ first.kind = "Err"
        THEN [r EXCEPT !.err = first.err]
        ELSE r

\* combinator::choice
choice(ps, input) == choice_from(ps, 1, input, <<>>)

\* A tuple which gives every parser the input of the first one.
RECURSIVE tuple_from_same(_, _, _, _, _)
tuple_from_same(ps, k, rest, outs, calls) ==
    IF k > Len(ps) THEN [Ok(outs, rest) EXCEPT !.calls = calls]
    ELSE LET r == parse(ps[k], rest)
             log == Append(calls, [index |-> k, input |-> rest])
         IN  IF r.kind # "Ok" THEN [r EXCEPT !.calls = log]
             ELSE tuple_from_same(ps, k + 1, rest, Append(outs, r.out), log)

\* impl_tuple: the parsers from the k-th on; rest is threaded forward.
RECURSIVE tuple_from(_, _, _, _, _)
tuple_from(ps, k, rest, outs, calls) ==
    IF k > Len(ps) THEN [Ok(outs, rest) EXCEPT !.calls = calls]
    ELSE LET r == parse(ps[k], rest)
             log == Append(calls, [index |-> k, input |-> rest])
         IN  IF r.kind # "Ok" THEN [r EXCEPT !.calls = log]
             ELSE tuple_from(ps, k + 1, r.rest, Append(outs, r.out), log)

\* combinator::tuple
tuple(ps, input) == tuple_from(ps, 1, input, <<>>, <<>>)

\* Parser::with_message: on failure push Context::from_message(msg).
with_message(r, msg) ==
    IF r.kind = "Err"
    THEN [r EXCEPT !.err = with_context(@, from_message(msg))]
    ELSE r

\* delimited which returns the rest left by content, not by right.
delimited_content_rest(left, content, right, input) ==
    LET l == with_message(parse(left, input), "delimited: left parser failed")
        c == with_message(parse(content, l.rest),
                          "delimited: content parser failed")
        r == with_message(parse(right, c.rest),
                          "delimited: right parser failed")
        cl == <<[index |-> 1, input |-> input]>>
        cc == Append(cl, [index |-> 2, input |-> l.rest])
        cr == Append(cc, [index |-> 3, input |-> c.rest])
    IN  IF l.kind # "Ok" THEN [l EXCEPT !.calls = cl]
        ELSE IF c.kind # "Ok" THEN [c EXCEPT !.calls = cc]
        ELSE IF r.kind # "Ok" THEN [r EXCEPT !.calls = cr]
        ELSE [Ok(c.out, c.rest) EXCEPT !.calls = cr]

\* combinator::delimited
delimited(left, content, right, input) ==
    LET l == with_message(parse(left, input), "delimited: left parser failed")
        c == with_message(parse(content, l.rest),
                          "delimited: content parser failed")
        r == with_message(parse(right, c.rest),
                          "delimited: right parser failed")
        cl == <<[index |-> 1, input |-> input]>>
        cc == Append(cl, [index |-> 2, input |-> l.rest])
        cr == Append(cc, [index |-> 3, input |-> c.rest])
    IN  IF l.kind # "Ok" THEN [l EXCEPT !.calls = cl]
        ELSE IF c.kind # "Ok" THEN [c EXCEPT !.calls = cc]
        ELSE IF r.kind # "Ok" THEN [r EXCEPT !.calls = cr]
        ELSE [Ok(c.out, r.rest) EXCEPT !.calls = cr]

\* Context::with_span: the context points at the slice.
with_span(ctx, slice) ==
    [ctx EXCEPT !.offset = slice.s, !.length = SLen(slice)]

\* Error::new: the stack is the collection, whatever its length.
Error_new(collection) == collection

\* impl From<Context> for Error
ErrorFromContext(ctx) == <<ctx>>

\* Error::end (error.rs): one message Context spanning the input.
Error_end(input) ==
    ErrorFromContext(with_span(from_message("Reached the end of input"), input))

\* Error::source: &self.stack[0]; indexing an empty Vec panics.
source(stack) ==
    IF Len(stack) = 0 THEN Panic
    ELSE [kind |-> "Context", ctx |-> stack[1], calls |-> <<>>]

\* An Error value held by the caller.
ErrorValue(stack) == [kind |-> "Error", stack |-> stack, calls |-> <<>>]

\* A with_context which puts the new Context below the existing ones.
Parser_with_context_front(p, ctx, input) ==
    LET r == parse(p, input)
    IN  IF r.kind = "Err" THEN [r EXCEPT !.err = <<ctx>> \o @] ELSE r

\* Parser::with_context: map_err(|e| e.with_context(f)).
Parser_with_context(p, ctx, input) ==
    LET r == parse(p, input)
    IN  IF r.kind = "Err" THEN [r EXCEPT !.err = with_context(@, ctx)] ELSE r

\* Parser::with_message: with_context(|| Context::from_message(f())).
Parser_with_message(p, msg, input) ==
    Parser_with_context(p, from_message(msg), input)

\* ---------------------------------------------------------------- numbers
\* The characters of a slice (str::chars).
Chars(sl) == [k \in 1..Len(char_indices(sl)) |-> char_indices(sl)[k].ch]

\* string::digits::<10>: take_while(|c| c.is_digit(10))
digits(input) == take_while(DecDigits, input)

\* A conversion which keeps the low bits of a value too large for the type.
RECURSIVE from_str_wrapping(_, _, _)
from_str_wrapping(bits, chars, result_) ==
    IF chars = <<>> THEN [ok |-> TRUE, v |-> result_]
    ELSE from_str_wrapping(bits, Tail(chars),
                           (result_ * 10 + to_digit(Head(chars))) % (2 ^ bits))

\* <uN as FromStr>::from_str on a run of digits: the digits are accumulated
\* with checked_mul and checked_add, and the first overflow is PosOverflow.
RECURSIVE from_str(_, _, _)
from_str(bits, chars, result_) ==
    IF chars = <<>> THEN [ok |-> TRUE, v |-> result_]
    ELSE LET next == result_ * 10 + to_digit(Head(chars))
         IN  IF next > 2 ^ bits - 1
             THEN [ok |-> FALSE, error |-> "PosOverflow"]
             ELSE from_str(bits, Tail(chars), next)

\* impl_parse_uint: the u8, u16, ... parsers, by the width of the type.
uint(bits, input) ==
    LET r == digits(input)
    IN  IF r.kind # "Ok" THEN r
        ELSE LET s == r.out
                 out == from_str(bits, Chars(s), 0)
             IN  IF out.ok THEN Ok(out.v, r.rest)
                 ELSE Err([kind |-> "ParseInt", error |-> out.error,
                           span |-> s])

\* The number of leading decimal digits of chars.
RECURSIVE digit_run(_)
digit_run(chars) ==
    IF chars # <<>> /\ Head(chars) \in DecDigits
    THEN 1 + digit_run(Tail(chars))
    ELSE 0

\* The value of a run of decimal digits.
RECURSIVE decimal(_, _)
decimal(chars, result_) ==
    IF chars = <<>> THEN result_
    ELSE decimal(Tail(chars), result_ * 10 + to_digit(Head(chars)))

\* <f64 as FromStr>::from_str: an optional sign, then inf, infinity or nan
\* in any case, or a number Digit+ | Digit+ '.' Digit* | Digit* '.' Digit+
\* with an optional exponent 'e' Sign? Digit+.  The value is kept as its
\* sign, integer digits, fraction digits and exponent.
from_str_float(chars) ==
    LET signed == chars # <<>> /\ Head(chars) \in {"+", "-"}
        negative == chars # <<>> /\ Head(chars) = "-"
        body == IF signed THEN Tail(chars) ELSE chars
        low == [k \in 1..Len(body) |-> to_ascii_lowercase(body[k])]
        d1 == digit_run(body)
        after1 == SubSeq(body, d1 + 1, Len(body))
        dot == after1 # <<>> /\ Head(after1) = "."
        after_dot == IF dot THEN Tail(after1) ELSE after1
        d2 == IF dot THEN digit_run(after_dot) ELSE 0
        after2 == SubSeq(after_dot, d2 + 1, Len(after_dot))
        has_exp == after2 # <<>> /\ to_ascii_lowercase(Head(after2)) = "e"
        e_rest == IF has_exp THEN Tail(after2) ELSE <<>>
        e_signed == e_rest # <<>> /\ Head(e_rest) \in {"+", "-"}
        e_negative == e_rest # <<>> /\ Head(e_rest) = "-"
        e_digits == IF e_signed THEN Tail(e_rest) ELSE e_rest
        e_valid == e_digits # <<>> /\ digit_run(e_digits) = Len(e_digits)
    IN  IF chars = <<>> THEN [ok |-> FALSE, error |-> "Empty"]
        ELSE IF low \in {<<"i", "n", "f">>,
                         <<"i", "n", "f", "i", "n", "i", "t", "y">>}
        THEN [ok |-> TRUE, v |-> [class |-> "infinite", negative |-> negative]]
        ELSE IF low = <<"n", "a", "n">>
        THEN [ok |-> TRUE, v |-> [class |-> "nan", negative |-> negative]]
        ELSE IF d1 + d2 >= 1 /\ (after2 = <<>> \/ (has_exp /\ e_valid))
        THEN [ok |-> TRUE,
              v |-> [class |-> "finite", negative |-> negative,
                     int |-> SubSeq(body, 1, d1),
                     frac |-> SubSeq(after_dot, 1, d2),
                     exp |-> IF ~has_exp THEN 0
                             ELSE IF e_negative THEN 0 - decimal(e_digits, 0)
                             ELSE decimal(e_digits, 0)]]
        ELSE [ok |-> FALSE, error |-> "Invalid"]

\* ------------------------------------------------------------------ Span
UsizeMod == 2 ^ UsizeBits
UsizeMax == UsizeMod - 1
wrapping_sub(a, b) == (a + UsizeMod - b) % UsizeMod
wrapping_add(a, b) == (a + b) % UsizeMod

\* A value handed back to the caller.
Value(v) == [kind |-> "Value", v |-> v, calls |-> <<>>]

\* Span::new: assert!(start <= end).
Span_new(start, end) ==
    IF start <= end THEN Value([start |-> start, end |-> end]) ELSE Panic

\* Span::try_new
Span_try_new(start, end) ==
    IF start <= end THEN Value(Some([start |-> start, end |-> end]))
    ELSE Value(None)

\* impl From<Range<usize>> for Span: the fields are copied.
SpanFromRange(range) == Value([start |-> range.start, end |-> range.end])

\* A from_substring which checks only where the needle starts.
Span_from_substring_start(needle, haystack) ==
    LET start == wrapping_sub(needle.ptr, haystack.ptr)
        end == wrapping_add(start, needle.len)
    IN  IF start <= haystack.len
        THEN LET span == Span_new(start, end)
             IN  IF span.kind = "Panic" THEN Panic ELSE Value(Some(span.v))
        ELSE Value(None)

\* Span::from_substring; needle and haystack are strings [ptr, len] (of
\* tells which allocation a string is a slice of).
Span_from_substring(needle, haystack) ==
    LET start == wrapping_sub(needle.ptr, haystack.ptr)
        end == wrapping_add(start, needle.len)
    IN  IF start <= haystack.len /\ end <= haystack.len
        THEN LET span == Span_new(start, end)
             IN  IF span.kind = "Panic" THEN Panic ELSE Value(Some(span.v))
        ELSE Value(None)

\* Span::len: self.end - self.start.  A subtraction which overflows panics
\* in a build with overflow checks and wraps in a build without.
Span_len(self) ==
    IF self.end >= self.start THEN {Value(self.end - self.start)}
    ELSE {Panic, Value(wrapping_sub(self.end, self.start))}

\* Parse::value / map_out(|_| v): the output of a success is replaced.
value(p, v, input) ==
    LET r == parse(p, input)
    IN  IF r.kind = "Ok" THEN [r EXCEPT !.out = v] ELSE r

\* combinator::fold run to its end: the loop applies the parser to what the
\* last success left and pushes each output on acc; the first failure ends
\* it.  A success which leaves the input as it was repeats forever.
RECURSIVE fold(_, _, _)
fold(p, acc_, input) ==
    LET r == parse(p, input)
    IN  IF r.kind = "Panic" THEN Panic
        ELSE IF r.kind # "Ok" THEN Ok(acc_, input)
        ELSE IF SLen(r.rest) >= SLen(input) THEN [kind |-> "Hang", calls |-> <<>>]
        ELSE fold(p, Append(acc_, r.out), r.rest)

\* A parser of one character which returns the character itself.
char_value(f, input) ==
    LET r == char(f, input)
    IN  IF r.kind = "Ok" THEN [r EXCEPT !.out = char_indices(input)[1].ch]
        ELSE r

\* combinator::not (combinator/mod.rs): a success of the inner parser becomes
\* an Error made of one message Context, whatever the output was; a failure
\* becomes a success whose output is the Error, on the same input.  (The
\* message is written here without the backquotes it has around "not".)
not(p, input) ==
    LET r == parse(p, input)
    IN  IF r.kind = "Ok"
        THEN [kind |-> "Err",
              err |-> <<from_message("Parser inside not succeeded")>>,
              calls |-> <<>>]
        ELSE IF r.kind = "Err" THEN Ok(r.err, input)
        ELSE r

\* The older combinator::not (combinator.rs): Err(out) on a success.
combinator_not(p, input) ==
    LET r == parse(p, input)
    IN  IF r.kind = "Ok" THEN [kind |-> "Err", err |-> r.out, calls |-> <<>>]
        ELSE IF r.kind = "Err" THEN Ok(r.err, input)
        ELSE r

\* Parser::parse, by constructor.
parse(p, input) ==
    CASE p.type = "literal" -> literal(p.lit, input)
      [] p.type = "anycase" -> anycase(p.lit, input)
      [] p.type = "char" -> char(p.f, input)
      [] p.type = "take" -> take(p.n, input)
      [] p.type = "take_while" -> take_while(p.f, input)
      [] p.type = "take_while0" -> take_while0(p.f, input)
      [] p.type = "consume" -> consume(p.p, input)
      [] p.type = "or0" -> or0(p.p, input)
      [] p.type = "optional" -> optional(p.p, input)
      [] p.type = "choice" -> choice(p.ps, input)
      [] p.type = "tuple" -> tuple(p.ps, input)
      [] p.type = "delimited" -> delimited(p.left, p.content, p.right, input)
      [] p.type = "not" -> not(p.p, input)
      [] p.type = "fold" -> fold(p.p, p.acc, input)
      [] p.type = "char_value" -> char_value(p.f, input)
      [] p.type = "uint" -> uint(p.bits, input)
      [] p.type = "value" -> value(p.p, p.v, input)
      [] p.type = "with_context" -> Parser_with_context(p.p, p.ctx, input)
      [] p.type = "with_message" -> Parser_with_message(p.p, p.msg, input)
      [] p.type = "combinator_not" -> combinator_not(p.p, input)

\* ------------------------------------------------------- parsers and inputs
Lit(l) == [type |-> "literal", lit |-> l]
Anycase(l) == [type |-> "anycase", lit |-> l]
Char(f) == [type |-> "char", f |-> f]
Take(n) == [type |-> "take", n |-> n]
TakeWhile(f) == [type |-> "take_while", f |-> f]
TakeWhile0(f) == [type |-> "take_while0", f |-> f]
Consume(p) == [type |-> "consume", p |-> p]
Or0(p) == [type |-> "or0", p |-> p]
Optional(p) == [type |-> "optional", p |-> p]
Choice(ps) == [type |-> "choice", ps |-> ps]
Tuple(ps) == [type |-> "tuple", ps |-> ps]
Delimited(l, c, r) ==
    [type |-> "delimited", left |-> l, content |-> c, right |-> r]
Not(p) == [type |-> "not", p |-> p]
CombinatorNot(p) == [type |-> "combinator_not", p |-> p]
WithContext(p, ctx) == [type |-> "with_context", p |-> p, ctx |-> ctx]
WithMessage(p, msg) == [type |-> "with_message", p |-> p, msg |-> msg]
ValueOf(p, v) == [type |-> "value", p |-> p, v |-> v]
Uint(bits) == [type |-> "uint", bits |-> bits]
Fold(p, seed) == [type |-> "fold", p |-> p, acc |-> seed]

\* ------------------------------------------------------------ f32 and f64
\* digits::<10> as a parser value
Digits == TakeWhile(DecDigits)

\* fn sign: optional(choice(('+', '-', ""))).value(())
f64_sign ==
    ValueOf(Optional(Choice(<<Char({"+"}), Char({"-"}), Lit(<<>>)>>)), "unit")

\* An exponent which may lack its digits.
f64_exp_digitless == Tuple(<<Anycase(<<"e">>), f64_sign, Or0(Digits)>>)

\* let exp = (anycase("e"), sign, digits::<10>)
f64_exp == Tuple(<<Anycase(<<"e">>), f64_sign, Digits>>)

\* let number = (choice((.., .., ..)), optional(exp))
f64_number ==
    Tuple(<<Choice(<<ValueOf(Tuple(<<Digits, Char({"."}), Or0(Digits)>>),
                             "unit"),
                     ValueOf(Tuple(<<Or0(Digits), Char({"."}), Digits>>),
                             "unit"),
                     ValueOf(Digits, "unit")>>),
            Optional(f64_exp)>>)

\* let float = (sign, choice((inf, infinity, nan, number)))
f64_float ==
    Tuple(<<f64_sign,
            Choice(<<ValueOf(Anycase(<<"i", "n", "f">>), "unit"),
                     ValueOf(Anycase(<<"i", "n", "f", "i", "n", "i", "t", "y">>),
                             "unit"),
                     ValueOf(Anycase(<<"n", "a", "n">>), "unit"),
                     ValueOf(f64_number, "unit")>>)>>)

\* let s = consume(float)
f64_s == Consume(f64_float)

\* impl_parse_float: the f32 and f64 parsers.
f64(input) ==
    LET r == parse(f64_s, input)
    IN  IF r.kind # "Ok" THEN r
        ELSE LET span == r.out
                 out == from_str_float(Chars(span))
             IN  IF out.ok THEN Ok(out.v, r.rest)
                 ELSE Err([kind |-> "ParseFloat", error |-> out.error,
                           span |-> span])

\* Predicates: char::is_alphabetic, |_| true (any_char), |_| false, and
\* membership of a character list (one_of / one_of_char).
Alphabetic == {ch \in AllChars : is_alphabetic(ch)}
AnyChar == AllChars
NoChar == {}
Preds == {Alphabetic, AnyChar, NoChar, {"a"}, {"(", ")"}}

Literals == {<<>>, <<"a">>, <<"(">>, <<")">>, <<"a", "A">>, <<"o_uml">>}

\* The parsers given to the combinators as arguments.
Leaves ==
    {Lit(<<"(">>), Lit(<<")">>), Lit(<<>>),
     TakeWhile0(Alphabetic), Char(AnyChar), Char(NoChar)}

\* The sequences of min..max leaves.
LeafSeqs(min, max) == UNION {[1..n -> Leaves] : n \in min..max}

\* The alternatives given to choice: sequences of leaves, and pairs whose
\* members fail differently on the same input.
ChoiceSeqs ==
    LeafSeqs(2, MaxArity)
        \cup {<<Lit(<<"(">>), TakeWhile(Alphabetic)>>,
              <<TakeWhile(Alphabetic), Lit(<<"(", ")">>)>>}

\* tests/json.rs whitespace: one_of0(&[' ', '\n', '\r', '\t']).map_out(|_| ())
\* (of the four characters only the space occurs in the inputs).
json_whitespace == ValueOf(TakeWhile0({" "}), "unit")

\* tests/json.rs bool
json_bool ==
    Delimited(json_whitespace,
              Choice(<<ValueOf(Lit(<<"t", "r", "u", "e">>), TRUE),
                       ValueOf(Lit(<<"f", "a", "l", "s", "e">>), FALSE)>>),
              json_whitespace)

\* Booleans with whitespace around them, as in test_bool.
JsonInputs ==
    {<<"t", "r", "u", "e">>,
     <<" ", "t", "r", "u", "e">>,
     <<" ", " ", "t", "r", "u", "e", " ", " ">>,
     <<"t", "r", "u", "e", " ", "x">>}

\* The widths of the unsigned types modelled: u8 and u16 (u32, u64 and usize
\* come from the same macro).
UintBits == {8, 16}

\* Inputs which start with digits: around the largest u8 and u16, with
\* leading zeros, and with something after the digits.
NumInputs ==
    {<<"0">>, <<"0", "0", "7">>, <<"2", "5", "5">>, <<"2", "5", "6">>,
     <<"0", "2", "5", "6">>, <<"7", "a">>, <<"2", "5", "5", ")">>,
     <<"2", "5", "6", "a", "7">>,
     <<"6", "5", "5", "3", "5">>, <<"6", "5", "5", "3", "6">>,
     <<"a", "7">>}

\* The spellings of a word with each letter in either case.
RECURSIVE Casings(_)
Casings(word) ==
    IF word = <<>> THEN {<<>>}
    ELSE {<<c>> \o w :
            c \in {ch \in AllChars : to_ascii_lowercase(ch) = Head(word)},
            w \in Casings(Tail(word))}

\* A word with every letter in upper case.
Upper(word) ==
    [k \in 1..Len(word) |->
        CHOOSE ch \in AllChars :
            to_ascii_lowercase(ch) = word[k] /\ ch # word[k]]

\* inf and nan in every casing and infinity in four, without and with a
\* sign.
SpecialFloats ==
    LET inf == Casings(<<"i", "n", "f">>)
        nan == Casings(<<"n", "a", "n">>)
        nfinity == <<"n", "f", "i", "n", "i", "t", "y">>
        infinity == {c \o t : c \in Casings(<<"i">>),
                              t \in {nfinity, Upper(nfinity)}}
    IN  inf \cup nan \cup infinity
          \cup {<<sg>> \o w : sg \in {"+", "-"}, w \in inf}
          \cup {<<"-">> \o w : w \in infinity}
          \cup {<<"+", "i", "n", "f", "i", "n", "i", "t", "y">>,
                <<"-", "n", "a", "n">>, <<"+", "N", "a", "N">>}

\* Number literals: the documented examples, and literals with a part
\* missing or with something after them.
FloatInputs ==
    {<<"3", ".", "1", "4">>, <<"-", "3", ".", "1", "4">>,
     <<"2", ".", "5", "E", "1", "0">>, <<"2", ".", "5", "E", "-", "1", "0">>,
     <<"5", ".">>, <<".", "5">>,
     <<"-", "2", "E", "-", "1", "0", "r", "e", "s", "t">>,
     <<".">>, <<"-">>, <<"+">>, <<"+", ".">>, <<"-", "e", "1">>,
     <<"2", "e">>, <<"2", "e", "+">>, <<"2", "e", "+", "x">>,
     <<"2", "E", "x">>, <<"1", "e", "5", "x">>, <<"+", ".", "5", "e", "1">>,
     <<"5", ".", "e", "3">>, <<"1", ".", "2", ".", "3">>, <<".", ".", "5">>,
     <<"e", "5">>, <<"-", "-", "1">>, <<"1", "-">>, <<"5", ".", "x">>,
     <<".", "e", "1">>, <<"1", "e", "-", "-", "1">>, <<"i", "n", "f", "x">>}

\* literal_char(c) of tests/json.rs: the parser of the one character c.
literal_char(c) == Char({c})

\* none_of_char(chars) of tests/json.rs: the first character when it is not
\* one of chars, as a char.
none_of_char(chars) == [type |-> "char_value", f |-> AllChars \ chars]

\* The two-character escapes of tests/json.rs and what each stands for.
Escapes ==
    <<[lit |-> <<"bslash", "dquote">>, ch |-> "dquote"],
      [lit |-> <<"bslash", "bslash">>, ch |-> "bslash"],
      [lit |-> <<"bslash", "/">>, ch |-> "/"],
      [lit |-> <<"bslash", "b">>, ch |-> "BS"],
      [lit |-> <<"bslash", "f">>, ch |-> "FF"],
      [lit |-> <<"bslash", "n">>, ch |-> "LF"],
      [lit |-> <<"bslash", "r">>, ch |-> "CR"],
      [lit |-> <<"bslash", "t">>, ch |-> "TAB"]>>

\* tests/json.rs string
json_string ==
    Delimited(literal_char("dquote"),
              Fold(Choice([k \in 1..(Len(Escapes) + 1) |->
                             IF k <= Len(Escapes)
                             THEN ValueOf(Lit(Escapes[k].lit), Escapes[k].ch)
                             ELSE none_of_char({"bslash", "dquote"})]),
                   <<>>),
              literal_char("dquote"))

\* Quoted strings: the text of test_string, and short ones with and without
\* escapes, a closing quote, text after it, or a two-byte character.
JsonStringInputs ==
    {<<"dquote", "a", " ", "s", "t", "r", "i", "n", "g", " ", "w", "i", "t",
       "h", " ", "bslash", "dquote", "e", "s", "c", "a", "p", "e", "s",
       "bslash", "n", "dquote">>,
     <<"dquote", "dquote">>,
     <<"dquote", "a", "dquote">>,
     <<"dquote", "bslash", "n", "dquote">>,
     <<"dquote", "bslash", "bslash", "dquote", "x">>,
     <<"dquote", "a", "bslash", "dquote", "b", "dquote", "r", "e", "s", "t">>,
     <<"dquote", "bslash", "/", "bslash", "t", "dquote">>,
     <<"dquote", "a">>,
     <<"dquote", "a", "bslash">>,
     <<"dquote", "a", "bslash", "x", "dquote">>,
     <<"a", "dquote">>,
     <<"dquote", "o_uml", "dquote">>,
     <<"dquote", "a", "o_uml", "dquote">>}

\* The documented example inputs "(word)" and "() rest".
Examples ==
    {<<"(", "w", "o", "r", "d", ")">>,
     <<"(", ")", " ", "r", "e", "s", "t">>,
     <<"(", "n", "o", "t", "c", "l", "o", "s", "e", "d">>}

\* Inputs with upper-case letters, for the case-insensitive matcher.
CaseInputs ==
    {<<"A">>, <<"A", "a">>, <<"a", "A">>, <<"A", "A", "(">>, <<"O_UML">>,
     <<"A", "o_uml">>}

Inputs ==
    UNION {[1..n -> Alphabet] : n \in 0..MaxLen} \cup Examples \cup CaseInputs
        \cup JsonInputs \cup NumInputs \cup SpecialFloats \cup FloatInputs
        \cup JsonStringInputs

\* The Contexts handed to the Error constructors: a bare message, a message
\* with a span, and a wrapped error value.
Contexts ==
    {from_message("context"),
     with_span(from_message("spanned"), Whole),
     ContextFromError([kind |-> "NotEnd"])}

\* The collections given to Error::new.
Collections == UNION {[1..n -> Contexts] : n \in 0..MaxStack}

\* What a wrapper is given: a message for with_message, a Context for
\* with_context.
Wrappers ==
    {[msg |-> "context"],
     with_span(from_message("spanned"), Whole),
     ContextFromError([kind |-> "NotEnd"])}

\* p.with_message(..) or p.with_context(..), by what is given.
Wrap(p, w) ==
    IF "msg" \in DOMAIN w THEN WithMessage(p, w.msg) ELSE WithContext(p, w)

\* p wrapped by ws[k], then ws[k + 1], ... (ws[Len(ws)] is the outermost).
RECURSIVE Nest(_, _, _)
Nest(p, ws, k) ==
    IF k > Len(ws) THEN p ELSE Nest(Wrap(p, ws[k]), ws, k + 1)

\* The start and end values given to the Span constructors.
SpanArgs == (0..MaxSpan) \cup {UsizeMax}

\* The addresses at which the buffer may lie.
BufAddrs == {3, 9}

\* The offsets of buf at which a &str may start or end.
Boundaries == {i \in 0..Len(BufBytes) : is_char_boundary(i)}

\* The &str slices of buf, as [ptr, len], when buf lies at address addr.
StrsOfBuf(addr) ==
    {[ptr |-> addr + i, len |-> j - i, of |-> "buf"] :
        <<i, j>> \in {b \in Boundaries \X Boundaries : b[1] <= b[2]}}

\* The haystacks: buf, and buf without its first and its last character.
Haystacks(addr) ==
    {h \in StrsOfBuf(addr) :
        \/ h.len = Len(BufBytes)
        \/ /\ h.ptr = addr + Min(Boundaries \ {0})
           /\ h.ptr + h.len =
                  addr + Len(BufBytes)
                    - Min({Len(BufBytes) - b :
                             b \in Boundaries \ {Len(BufBytes)}})}

\* Strings of another allocation, before or after buf.
OtherStrs(addr) ==
    {[ptr |-> a, len |-> n, of |-> "other"] :
        <<a, n>> \in {x \in ((addr - 2)..(addr + Len(BufBytes) + 1)) \X (0..2) :
                        x[1] + x[2] <= addr \/ x[1] >= addr + Len(BufBytes)}}

NoParser == [type |-> "none"]
NoResult == [kind |-> "None", calls |-> <<>>]
NoSlice == [s |-> 0, e |-> 0]

\* ---------------------------------------------------------------- actions
Init ==
    /\ buf \in Inputs
    /\ parser = NoParser
    /\ pc = "ready"
    /\ result = NoResult
    /\ acc = <<>>
    /\ cur = NoSlice

\* impl Parser for &str: literal(l).parse(buf)
ParseLiteral ==
    /\ pc = "ready"
    /\ \E l \in Literals :
          /\ parser' = Lit(l)
          /\ result' = parse(Lit(l), Whole)
    /\ pc' = "done"
    /\ UNCHANGED <<buf, acc, cur>>

\* anycase(l).parse(buf)
ParseAnycase ==
    /\ pc = "ready"
    /\ \E l \in Literals :
          /\ parser' = Anycase(l)
          /\ result' = parse(Anycase(l), Whole)
    /\ pc' = "done"
    /\ UNCHANGED <<buf, acc, cur>>

\* char(f).parse(buf)
ParseChar ==
    /\ pc = "ready"
    /\ \E f \in Preds :
          /\ parser' = Char(f)
          /\ result' = parse(Char(f), Whole)
    /\ pc' = "done"
    /\ UNCHANGED <<buf, acc, cur>>

\* take(n).parse(buf)
ParseTake ==
    /\ pc = "ready"
    /\ \E n \in 0..MaxTake :
          /\ parser' = Take(n)
          /\ result' = parse(Take(n), Whole)
    /\ pc' = "done"
    /\ UNCHANGED <<buf, acc, cur>>

\* take_while(f).parse(buf)
ParseTakeWhile ==
    /\ pc = "ready"
    /\ \E f \in Preds :
          /\ parser' = TakeWhile(f)
          /\ result' = parse(TakeWhile(f), Whole)
    /\ pc' = "done"
    /\ UNCHANGED <<buf, acc, cur>>

\* take_while0(f).parse(buf)
ParseTakeWhile0 ==
    /\ pc = "ready"
    /\ \E f \in Preds :
          /\ parser' = TakeWhile0(f)
          /\ result' = parse(TakeWhile0(f), Whole)
    /\ pc' = "done"
    /\ UNCHANGED <<buf, acc, cur>>

\* consume(p).parse(buf)
ParseConsume ==
    /\ pc = "ready"
    /\ \E p \in Leaves :
          /\ parser' = Consume(p)
          /\ result' = parse(Consume(p), Whole)
    /\ pc' = "done"
    /\ UNCHANGED <<buf, acc, cur>>

\* or0(p).parse(buf)
ParseOr0 ==
    /\ pc = "ready"
    /\ \E p \in Leaves \cup {TakeWhile(Alphabetic)} :
          /\ parser' = Or0(p)
          /\ result' = parse(Or0(p), Whole)
    /\ pc' = "done"
    /\ UNCHANGED <<buf, acc, cur>>

\* optional(p).parse(buf)
ParseOptional ==
    /\ pc = "ready"
    /\ \E p \in Leaves \cup {TakeWhile(Alphabetic)} :
          /\ parser' = Optional(p)
          /\ result' = parse(Optional(p), Whole)
    /\ pc' = "done"
    /\ UNCHANGED <<buf, acc, cur>>

\* choice(ps).parse(buf)
ParseChoice ==
    /\ pc = "ready"
    /\ \E ps \in ChoiceSeqs :
          /\ parser' = Choice(ps)
          /\ result' = parse(Choice(ps), Whole)
    /\ pc' = "done"
    /\ UNCHANGED <<buf, acc, cur>>

\* the tuple ps as a parser: ps.parse(buf)
ParseTuple ==
    /\ pc = "ready"
    /\ \E ps \in LeafSeqs(2, MaxArity) :
          /\ parser' = Tuple(ps)
          /\ result' = parse(Tuple(ps), Whole)
    /\ pc' = "done"
    /\ UNCHANGED <<buf, acc, cur>>

\* delimited(l, c, r).parse(buf)
ParseDelimited ==
    /\ pc = "ready"
    /\ \E l \in Leaves, c \in Leaves, r \in Leaves :
          /\ parser' = Delimited(l, c, r)
          /\ result' = parse(Delimited(l, c, r), Whole)
    /\ pc' = "done"
    /\ UNCHANGED <<buf, acc, cur>>

\* fold: entry of the closure; the accumulator is a clone of the seed.
FoldCall ==
    /\ pc = "ready"
    /\ \E p \in Leaves, seed \in {<<>>, <<NoSlice>>} :
          /\ parser' = Fold(p, seed)
          /\ acc' = seed
    /\ cur' = Whole
    /\ pc' = "fold"
    /\ UNCHANGED <<buf, result>>

\* A fold whose loop pushes the output but keeps parsing the same input.
FoldApply_same ==
    /\ pc = "fold"
    /\ Len(acc) - Len(parser.acc) < Len(buf) + MaxFoldIter
    /\ LET r == parse(parser.p, cur)
       IN  /\ r.kind = "Ok"
           /\ acc' = Append(acc, r.out)
    /\ UNCHANGED <<buf, parser, pc, result, cur>>

\* fold: one iteration in which the inner parser succeeds; apply pushes the
\* output on the accumulator.
FoldApply ==
    /\ pc = "fold"
    /\ Len(acc) - Len(parser.acc) < Len(buf) + MaxFoldIter
    /\ LET r == parse(parser.p, cur)
       IN  /\ r.kind = "Ok"
           /\ cur' = r.rest
           /\ acc' = Append(acc, r.out)
    /\ UNCHANGED <<buf, parser, pc, result>>

\* A fold which returns the error of the failing attempt.
FoldBreak_propagate ==
    /\ pc = "fold"
    /\ LET r == parse(parser.p, cur)
       IN  /\ r.kind # "Ok"
           /\ result' = r
    /\ pc' = "done"
    /\ UNCHANGED <<buf, parser, acc, cur>>

\* A fold with a progress guard: it also breaks on a zero-width success.
FoldBreak_guarded ==
    /\ pc = "fold"
    /\ LET r == parse(parser.p, cur)
       IN  /\ r.kind # "Ok" \/ r.rest = cur
           /\ result' = IF r.kind = "Panic" THEN Panic ELSE Ok(acc, cur)
    /\ pc' = "done"
    /\ UNCHANGED <<buf, parser, acc, cur>>

\* fold: the inner parser fails, the loop breaks and the closure returns.
FoldBreak ==
    /\ pc = "fold"
    /\ LET r == parse(parser.p, cur)
       IN  /\ r.kind # "Ok"
           /\ result' = IF r.kind = "Panic" THEN Panic ELSE Ok(acc, cur)
    /\ pc' = "done"
    /\ UNCHANGED <<buf, parser, acc, cur>>

\* A fold whose accumulator lives on from one call to the next.
FoldAgain_keep ==
    /\ pc = "done"
    /\ parser.type = "fold"
    /\ result.kind = "Ok"
    /\ Len(buf) <= MaxAgain
    /\ buf' \in {b \in Inputs : Len(b) <= MaxAgain}
    /\ acc' = result.out
    /\ cur' = [s |-> 0, e |-> ByteLen(buf')]
    /\ pc' = "fold"
    /\ UNCHANGED <<parser, result>>

\* fold: the same parser is called once more, on another input; the caller
\* still holds the result of the call before.  The closure clones the seed
\* anew.
FoldAgain ==
    /\ pc = "done"
    /\ parser.type = "fold"
    /\ result.kind = "Ok"
    /\ Len(buf) <= MaxAgain
    /\ buf' \in {b \in Inputs : Len(b) <= MaxAgain}
    /\ acc' = parser.acc
    /\ cur' = [s |-> 0, e |-> ByteLen(buf')]
    /\ pc' = "fold"
    /\ UNCHANGED <<parser, result>>

\* not(p).parse(buf)
ParseNot ==
    /\ pc = "ready"
    /\ \E p \in Leaves :
          /\ parser' = Not(p)
          /\ result' = parse(Not(p), Whole)
    /\ pc' = "done"
    /\ UNCHANGED <<buf, acc, cur>>

\* The older not(p).parse(buf)
ParseCombinatorNot ==
    /\ pc = "ready"
    /\ \E p \in Leaves :
          /\ parser' = CombinatorNot(p)
          /\ result' = parse(CombinatorNot(p), Whole)
    /\ pc' = "done"
    /\ UNCHANGED <<buf, acc, cur>>

\* p.with_context(..).with_message(..)...parse(buf), up to MaxNest wrappers
ParseWithContext ==
    /\ pc = "ready"
    /\ \E p \in Leaves, n \in 1..MaxNest :
          \E ws \in [1..n -> Wrappers] :
              /\ parser' = Nest(p, ws, 1)
              /\ result' = parse(Nest(p, ws, 1), Whole)
    /\ pc' = "done"
    /\ UNCHANGED <<buf, acc, cur>>

\* tests/json.rs: bool(buf)
ParseJsonBool ==
    /\ pc = "ready"
    /\ parser' = json_bool
    /\ result' = parse(json_bool, Whole)
    /\ pc' = "done"
    /\ UNCHANGED <<buf, acc, cur>>

\* tests/json.rs: string(buf)
ParseJsonString ==
    /\ pc = "ready"
    /\ parser' = json_string
    /\ result' = parse(json_string, Whole)
    /\ pc' = "done"
    /\ UNCHANGED <<buf, acc, cur>>

\* u8(buf), u16(buf)
ParseUint ==
    /\ pc = "ready"
    /\ \E bits \in UintBits :
          /\ parser' = Uint(bits)
          /\ result' = parse(Uint(bits), Whole)
    /\ pc' = "done"
    /\ UNCHANGED <<buf, acc, cur>>

\* f64(buf)
ParseF64 ==
    /\ pc = "ready"
    /\ parser' = [type |-> "f64"]
    /\ result' = f64(Whole)
    /\ pc' = "done"
    /\ UNCHANGED <<buf, acc, cur>>

\* Error::from(context)
ErrorFromContextCall ==
    /\ pc = "ready"
    /\ \E ctx \in Contexts :
          /\ parser' = [type |-> "Error::from", ctx |-> ctx]
          /\ result' = ErrorValue(ErrorFromContext(ctx))
    /\ pc' = "done"
    /\ UNCHANGED <<buf, acc, cur>>

\* Error::from(e) for an error value e
ErrorFromCall ==
    /\ pc = "ready"
    /\ \E e \in {[kind |-> "NotEnd"], ErrorUnmatched(Whole)} :
          /\ parser' = [type |-> "Error::from", e |-> e]
          /\ result' = ErrorValue(ErrorFrom(e))
    /\ pc' = "done"
    /\ UNCHANGED <<buf, acc, cur>>

\* Error::new(collection)
ErrorNewCall ==
    /\ pc = "ready"
    /\ \E collection \in Collections :
          /\ parser' = [type |-> "Error::new", collection |-> collection]
          /\ result' = ErrorValue(Error_new(collection))
    /\ pc' = "done"
    /\ UNCHANGED <<buf, acc, cur>>

\* Error::end(buf)
ErrorEndCall ==
    /\ pc = "ready"
    /\ parser' = [type |-> "Error::end"]
    /\ result' = ErrorValue(Error_end(Whole))
    /\ pc' = "done"
    /\ UNCHANGED <<buf, acc, cur>>

\* error.with_context(f) on the Error the caller holds
ErrorWithContext ==
    /\ pc = "done"
    /\ result.kind = "Error"
    /\ Len(result.stack) < MaxStack
    /\ \E ctx \in Contexts :
          result' = ErrorValue(with_context(result.stack, ctx))
    /\ UNCHANGED <<buf, parser, pc, acc, cur>>

\* error.source() on the Error the caller holds
ErrorSource ==
    /\ pc = "done"
    /\ result.kind = "Error"
    /\ parser' = [type |-> "Error::source", stack |-> result.stack]
    /\ result' = source(result.stack)
    /\ UNCHANGED <<buf, pc, acc, cur>>

\* Span::new(start, end)
SpanNew ==
    /\ pc = "ready"
    /\ \E start \in SpanArgs, end \in SpanArgs :
          /\ parser' = [type |-> "Span::new", start |-> start, end |-> end]
          /\ result' = Span_new(start, end)
    /\ pc' = "done"
    /\ UNCHANGED <<buf, acc, cur>>

\* Span::try_new(start, end)
SpanTryNew ==
    /\ pc = "ready"
    /\ \E start \in SpanArgs, end \in SpanArgs :
          /\ parser' = [type |-> "Span::try_new", start |-> start, end |-> end]
          /\ result' = Span_try_new(start, end)
    /\ pc' = "done"
    /\ UNCHANGED <<buf, acc, cur>>

\* Span::from(start..end)
SpanFrom ==
    /\ pc = "ready"
    /\ \E start \in SpanArgs, end \in SpanArgs :
          /\ parser' = [type |-> "Span::from", start |-> start, end |-> end]
          /\ result' = SpanFromRange([start |-> start, end |-> end])
    /\ pc' = "done"
    /\ UNCHANGED <<buf, acc, cur>>

\* Span::from_substring(needle, haystack)
SpanFromSubstring ==
    /\ pc = "ready"
    /\ Len(BufBytes) > 0
    /\ \E addr \in BufAddrs :
          \E haystack \in Haystacks(addr),
             needle \in StrsOfBuf(addr) \cup OtherStrs(addr) :
              /\ parser' = [type |-> "Span::from_substring", addr |-> addr,
                            needle |-> needle, haystack |-> haystack]
              /\ result' = Span_from_substring(needle, haystack)
    /\ pc' = "done"
    /\ UNCHANGED <<buf, acc, cur>>

\* The Span the caller holds, if any.
HoldsSpan ==
    /\ pc = "done"
    /\ result.kind = "Value"
    /\ parser.type \in {"Span::new", "Span::try_new", "Span::from",
                        "Span::from_substring"}
    /\ "some" \in DOMAIN result.v => result.v.some

HeldSpan == IF "some" \in DOMAIN result.v THEN result.v.v ELSE result.v

\* span.len() on the Span the caller holds
SpanLen ==
    /\ HoldsSpan
    /\ parser' = [type |-> "Span::len", self |-> HeldSpan]
    /\ result' \in Span_len(HeldSpan)
    /\ UNCHANGED <<buf, pc, acc, cur>>

\* The caller takes the outcome; the parser can be called again.
Return ==
    /\ pc = "done"
    /\ pc' = "ready"
    /\ parser' = NoParser
    /\ result' = NoResult
    /\ acc' = <<>>
    /\ cur' = NoSlice
    /\ UNCHANGED buf

Next ==
    \/ ParseLiteral
    \/ ParseAnycase
    \/ ParseChar
    \/ ParseTake
    \/ ParseTakeWhile
    \/ ParseTakeWhile0
    \/ ParseConsume
    \/ ParseOr0
    \/ ParseOptional
    \/ ParseChoice
    \/ ParseTuple
    \/ ParseDelimited
    \/ ParseNot
    \/ ParseCombinatorNot
    \/ ParseWithContext
    \/ ParseJsonBool
    \/ ParseJsonString
    \/ ParseUint
    \/ ParseF64
    \/ ErrorFromContextCall
    \/ ErrorFromCall
    \/ ErrorNewCall
    \/ ErrorEndCall
    \/ ErrorWithContext
    \/ ErrorSource
    \/ SpanNew
    \/ SpanTryNew
    \/ SpanFrom
    \/ SpanFromSubstring
    \/ SpanLen
    \/ FoldCall
    \/ FoldApply
    \/ FoldBreak
    \/ FoldAgain
    \/ Return

Spec == Init /\ [][Next]_vars

\* The calls of fold alone.
FoldNext ==
    \/ FoldCall
    \/ FoldApply
    \/ FoldBreak
    \/ FoldAgain
    \/ Return

\* The state before a call of fold on an input of at most MaxLen characters.
FoldInit ==
    /\ Init
    /\ Len(buf) <= MaxLen

\* The calls of fold, whose loop runs on: an iteration which can be taken is
\* taken, and the closure returns once the inner parser has failed.
FoldSpec ==
    FoldInit /\ [][FoldNext]_vars /\ WF_vars(FoldApply) /\ WF_vars(FoldBreak)

\* ================================================================== claims
\* Helpers of the statements below.

\* The call of the named kind of parser has returned.
Done(type) == pc = "done" /\ parser.type = type

\* lit is a prefix of the buffer, character by character.
IsPrefix(lit) ==
    /\ Len(lit) <= Len(buf)
    /\ SubSeq(buf, 1, Len(lit)) = lit

\* rest is a tail of the whole input, and out followed by rest spells the
\* input byte for byte.
RoundTrip(out, rest) ==
    /\ rest.e = Len(BufBytes)
    /\ rest.s >= 0
    /\ Bytes(rest) = SubSeq(BufBytes, Len(BufBytes) - SLen(rest) + 1, Len(BufBytes))
    /\ Bytes(out) \o Bytes(rest) = BufBytes

SliceMatchers ==
    {"literal", "anycase", "char", "take", "take_while", "take_while0",
     "or0", "consume"}

\* C1: whenever a slice-returning matcher succeeds with (output, rest), rest
\* is a suffix of the input and output ++ rest equals the input byte for
\* byte, also when every character satisfies a run-length predicate.
C1_RoundTrip ==
    (pc = "done" /\ parser.type \in SliceMatchers /\ result.kind = "Ok")
        => RoundTrip(result.out, result.rest)

\* C1 witness: take_while0 has run on a non-empty input all of whose
\* characters satisfy the predicate.
C1_Witness ==
    /\ Done("take_while0")
    /\ buf # <<>>
    /\ \A k \in 1..Len(buf) : buf[k] \in parser.f
    /\ result.kind = "Ok"

\* C2: literal(L) succeeds iff the input starts with L; on success the
\* output is the first len(L) bytes and the rest is s[len(L)..].
C2_Literal ==
    Done("literal") =>
        /\ (result.kind = "Ok") <=> IsPrefix(parser.lit)
        /\ result.kind = "Ok" =>
              /\ result.out = [s |-> 0, e |-> ByteLen(parser.lit)]
              /\ result.rest = [s |-> ByteLen(parser.lit), e |-> Len(BufBytes)]
              /\ Bytes(result.out) = Encode(parser.lit)

\* C2 witness: a two-byte literal has matched a longer input.
C2_Witness ==
    /\ Done("literal")
    /\ ByteLen(parser.lit) = 2
    /\ result.kind = "Ok"
    /\ SLen(result.rest) > 0

\* C3: on an input which does not start with L, literal(L) returns an error
\* value: end-of-input with a zero-width span at the end when the input is
\* shorter than L, unmatched with the first len(L) bytes as span otherwise.
C3_LiteralError ==
    (Done("literal") /\ ~IsPrefix(parser.lit)) =>
        /\ result.kind = "Err"
        /\ Len(result.err) = 1
        /\ LET e == result.err[1].message
               n == ByteLen(parser.lit)
           IN  IF Len(BufBytes) < n
               THEN /\ e.kind = "End"
                    /\ e.span = [s |-> Len(BufBytes), e |-> Len(BufBytes)]
               ELSE /\ e.kind = "Unmatched"
                    /\ e.span = [s |-> 0, e |-> n]

TextMatchers == {"literal", "anycase", "char", "take", "take_while"}

\* C4: no text matcher ever slices the input off a character boundary, so
\* parse returns Ok or Err and never aborts.
C4_NoPanic ==
    (pc = "done" /\ parser.type \in TextMatchers) => result.kind \in {"Ok", "Err"}

\* C5: optional(p) never fails; it returns (Some(out), rest) when p succeeds
\* with (out, rest), and (None, s) with s the untouched input when p fails,
\* the inner error being discarded.
C5_Optional ==
    Done("optional") =>
        LET inner == parse(parser.p, Whole)
        IN  /\ result.kind # "Err"
            /\ inner.kind = "Ok" =>
                  /\ result.kind = "Ok"
                  /\ result.out = Some(inner.out)
                  /\ result.rest = inner.rest
            /\ inner.kind = "Err" =>
                  /\ result.kind = "Ok"
                  /\ result.out = None
                  /\ result.rest = Whole
                  /\ "err" \notin DOMAIN result

\* C5 witness: optional has run on a non-empty input on which the inner
\* parser fails.
C5_Witness ==
    /\ Done("optional")
    /\ buf # <<>>
    /\ parse(parser.p, Whole).kind = "Err"
    /\ result.kind = "Ok"

\* Parsers which fail on every input, and parsers which succeed on every one.
AlwaysFails == {Char(NoChar)}
AlwaysSucceeds == {Lit(<<>>), TakeWhile0(Alphabetic)}

\* C6: choice applies the alternatives left to right to the same original
\* input and returns exactly the result of the first one that succeeds;
\* later alternatives are not consulted; choice(a, b) with a always failing
\* and b always succeeding behaves as b alone.
C6_Choice ==
    Done("choice") =>
        LET ps == parser.ps
            r(i) == parse(ps[i], Whole)
            answered == {i \in 1..Len(ps) : r(i).kind # "Err"}
        IN  /\ (answered # {} /\ r(Min(answered)).kind = "Ok") =>
                  LET k == Min(answered)
                  IN  /\ result.kind = "Ok"
                      /\ result.out = r(k).out
                      /\ result.rest = r(k).rest
                      /\ Len(result.calls) = k
                      /\ \A i \in 1..k :
                            result.calls[i] = [index |-> i, input |-> Whole]
            /\ (Len(ps) = 2 /\ ps[1] \in AlwaysFails /\ ps[2] \in AlwaysSucceeds) =>
                  /\ result.kind = r(2).kind
                  /\ result.out = r(2).out
                  /\ result.rest = r(2).rest

\* C6 witness: the first alternative has succeeded and the second one, which
\* would have consumed more, was not consulted.
C6_Witness ==
    /\ Done("choice")
    /\ result.kind = "Ok"
    /\ Len(result.calls) = 1
    /\ parse(parser.ps[2], Whole).kind = "Ok"
    /\ SLen(parse(parser.ps[2], Whole).rest) < SLen(result.rest)

\* C7: a tuple applies its parsers in order, each on the rest left by the
\* previous one; on success the output is the ordered collection of the
\* outputs and rest is the last rest; the first failing step's error is
\* returned unchanged and no later parser is applied.
C7_Tuple ==
    Done("tuple") =>
        LET ps == parser.ps
            calls == result.calls
            n == Len(calls)
            r(k) == parse(ps[k], calls[k].input)
        IN  /\ n >= 1
            /\ n <= Len(ps)
            /\ calls[1] = [index |-> 1, input |-> Whole]
            /\ \A k \in 2..n :
                  /\ calls[k].index = k
                  /\ r(k - 1).kind = "Ok"
                  /\ calls[k].input = r(k - 1).rest
            /\ IF r(n).kind = "Ok"
               THEN /\ n = Len(ps)
                    /\ result.kind = "Ok"
                    /\ result.out = [k \in 1..n |-> r(k).out]
                    /\ result.rest = r(n).rest
               ELSE /\ result.kind = r(n).kind
                    /\ r(n).kind = "Err" => result.err = r(n).err

\* C7 witness: a tuple has succeeded after two steps which both consumed
\* input.
C7_Witness ==
    /\ Done("tuple")
    /\ result.kind = "Ok"
    /\ Len(result.out) >= 2
    /\ SLen(result.out[1]) > 0
    /\ SLen(result.out[2]) > 0

\* C7 witness of the failure path: the second step has failed after the
\* first one consumed input.
C7_WitnessFail ==
    /\ Done("tuple")
    /\ result.kind = "Err"
    /\ Len(result.calls) = 2
    /\ result.calls[2].input # Whole

\* The input of the k-th iteration of the fold loop over p.
RECURSIVE FoldInput(_, _)
FoldInput(p, k) ==
    IF k = 1 THEN Whole
    ELSE LET before == FoldInput(p, k - 1)
             r == parse(p, before)
         IN  IF r.kind = "Ok" THEN r.rest ELSE before

\* C8: fold never returns an error; it applies p repeatedly from s, applies
\* combine once per success in order, and at the first failure of p returns
\* (accumulator, input as it stood before the failing attempt); when the
\* first attempt fails the result is (seed, s).
C8_Fold ==
    (pc \in {"fold", "done"} /\ parser.type = "fold") =>
        LET p == parser.p
            seedv == parser.acc
            n == Len(acc) - Len(seedv)
        IN  /\ n >= 0
            /\ SubSeq(acc, 1, Len(seedv)) = seedv
            /\ \A k \in 1..n :
                  /\ parse(p, FoldInput(p, k)).kind = "Ok"
                  /\ acc[Len(seedv) + k] = parse(p, FoldInput(p, k)).out
            /\ cur = FoldInput(p, n + 1)
            /\ pc = "done" =>
                  /\ result.kind # "Err"
                  /\ parse(p, cur).kind # "Ok"
                  /\ parse(p, cur).kind = "Err" =>
                        /\ result.kind = "Ok"
                        /\ result.out = acc
                        /\ result.rest = cur
                  /\ parse(p, Whole).kind = "Err" =>
                        /\ result.out = seedv
                        /\ result.rest = Whole

\* C8 witness: a fold with a non-empty seed has returned after at least two
\* successful applications.
C8_Witness ==
    /\ Done("fold")
    /\ result.kind = "Ok"
    /\ parser.acc # <<>>
    /\ Len(result.out) >= Len(parser.acc) + 2
    /\ SLen(result.rest) > 0

\* The inner parser of the running fold succeeds on the current remaining
\* input without consuming anything.
ZeroWidth ==
    /\ pc = "fold"
    /\ parse(parser.p, cur).kind = "Ok"
    /\ parse(parser.p, cur).rest = cur

\* C9: once the inner parser succeeds on a remaining input while consuming
\* zero characters, fold never terminates: every further step re-applies
\* the parser to the same input and the loop is never left.
C9_ZeroWidthHang ==
    [][ZeroWidth => (ZeroWidth' /\ pc' = "fold" /\ cur' = cur)]_vars

\* C9 witness: after some progress the loop has gone round more often than
\* the input has characters and still stands on a zero-width success in the
\* middle of the input.
C9_Witness ==
    /\ ZeroWidth
    /\ cur.s > 0
    /\ SLen(cur) > 0
    /\ Len(acc) - Len(parser.acc) > Len(buf)

\* delimited(literal("("), alphabetic0(), literal(")"))
ParenWord ==
    Delimited(Lit(<<"(">>), TakeWhile0(Alphabetic), Lit(<<")">>))

\* C10: delimited applies left, content on left's rest and right on
\* content's rest; when the three succeed it returns content's output with
\* right's rest; "(word)" yields ("word", "") and "() rest" yields
\* ("", " rest").
C10_Delimited ==
    Done("delimited") =>
        LET l == parse(parser.left, Whole)
            c == parse(parser.content, l.rest)
            r == parse(parser.right, c.rest)
        IN  /\ (l.kind = "Ok" /\ c.kind = "Ok" /\ r.kind = "Ok") =>
                  /\ result.kind = "Ok"
                  /\ result.out = c.out
                  /\ result.rest = r.rest
                  /\ result.calls = <<[index |-> 1, input |-> Whole],
                                      [index |-> 2, input |-> l.rest],
                                      [index |-> 3, input |-> c.rest]>>
            /\ (parser = ParenWord /\ buf = <<"(", "w", "o", "r", "d", ")">>) =>
                  /\ result.kind = "Ok"
                  /\ Bytes(result.out) = <<"w", "o", "r", "d">>
                  /\ Bytes(result.rest) = <<>>
            /\ (parser = ParenWord /\ buf = <<"(", ")", " ", "r", "e", "s", "t">>) =>
                  /\ result.kind = "Ok"
                  /\ Bytes(result.out) = <<>>
                  /\ Bytes(result.rest) = <<" ", "r", "e", "s", "t">>

\* C10 witness: the documented parser has returned on "(word)".
C10_Witness ==
    /\ Done("delimited")
    /\ parser = ParenWord
    /\ buf = <<"(", "w", "o", "r", "d", ")">>
    /\ result.kind = "Ok"


\* ------------------------------------------------------------------- C11
\* C11: not(p) inverts p without consuming.  When p succeeds on the input,
\* not(p) fails and the failure carries p's output; when p fails with error
\* e, not(p) succeeds with output e and the rest is the whole input.
C11_Not ==
    (Done("not") \/ Done("combinator_not")) =>
        LET r == parse(parser.p, Whole)
        IN  /\ r.kind = "Ok" =>
                result.kind = "Err" /\ result.err = r.out
            /\ r.kind = "Err" =>
                /\ result.kind = "Ok"
                /\ result.out = r.err
                /\ result.rest = Whole

\* ------------------------------------------------------------------- C12
\* C12: every Error built by the public constructors (From<Context>,
\* From<E>, Error::new, Error::end, with_context) has a stack of at least
\* one Context, so Error::source, which reads index 0, never panics.
C12_NonEmptyStack ==
    /\ (pc = "done" /\ result.kind = "Error") => Len(result.stack) >= 1
    /\ Done("Error::source") => result.kind # "Panic"

\* ------------------------------------------------------------------- C13
IsWrapper(p) == p.type \in {"with_context", "with_message"}

\* The parser inside all the wrappers.
RECURSIVE Wrapped(_)
Wrapped(p) == IF IsWrapper(p) THEN Wrapped(p.p) ELSE p

\* The Contexts the wrappers add, from the innermost to the outermost.
RECURSIVE Added(_)
Added(p) ==
    IF IsWrapper(p)
    THEN Append(Added(p.p),
                IF p.type = "with_message" THEN from_message(p.msg) ELSE p.ctx)
    ELSE <<>>

\* C13: when the wrapped parser fails, each with_context / with_message
\* wrapper appends exactly one Context at the end of the stack and leaves
\* the entries already there at their index: after k nested wrappers the
\* stack has length 1 + k, index 0 is the original cause and the added
\* Contexts follow from the innermost to the outermost.  When the wrapped
\* parser succeeds the result is unchanged.
C13_WithContext ==
    (pc = "done" /\ IsWrapper(parser)) =>
        LET r == parse(Wrapped(parser), Whole)
            k == Len(Added(parser))
        IN  /\ r.kind = "Err" =>
                /\ result.kind = "Err"
                /\ Len(r.err) = 1
                /\ Len(result.err) = 1 + k
                /\ result.err[1] = r.err[1]
                /\ \A i \in 1..k : result.err[1 + i] = Added(parser)[i]
            /\ r.kind = "Ok" => result = r

\* Two nested wrappers with different Contexts around a failing parser.
C13_Witness ==
    /\ pc = "done"
    /\ IsWrapper(parser)
    /\ IsWrapper(parser.p)
    /\ result.kind = "Err"
    /\ Len(result.err) = 3
    /\ result.err[2] # result.err[3]
    /\ parser.type = "with_message"
    /\ parser.p.type = "with_context"

\* ------------------------------------------------------------------- C14
\* C14: every Span obtained from Span::new, Span::try_new,
\* Span::from_substring or From<Range<usize>> has start <= end, so that
\* len() never underflows; Span::new panics and Span::try_new returns None
\* exactly when start > end.
C14_SpanOrdered ==
    /\ HoldsSpan => HeldSpan.start <= HeldSpan.end
    /\ Done("Span::len") =>
           /\ result.kind = "Value"
           /\ result.v = parser.self.end - parser.self.start
    /\ Done("Span::new") =>
           (result.kind = "Panic" <=> parser.start > parser.end)
    /\ Done("Span::try_new") =>
           (result = Value(None) <=> parser.start > parser.end)

\* ------------------------------------------------------------------- C15
\* C15: for every n >= 0, 0 included, take(n) succeeds exactly when the
\* input has at least n characters; the output is then the first n
\* characters and the rest is what follows them.  Otherwise it fails with
\* an end-of-input error.
C15_Take ==
    Done("take") =>
        IF Len(buf) >= parser.n
        THEN /\ result.kind = "Ok"
             /\ Bytes(result.out) = Encode(SubSeq(buf, 1, parser.n))
             /\ result.out.s = 0
             /\ result.rest = [s |-> result.out.e, e |-> Len(BufBytes)]
        ELSE /\ result.kind = "Err"
             /\ result.err[1].message.kind = "End"

\* ------------------------------------------------------------------- C16
\* The number of leading characters of chars which are in f.
RECURSIVE LeadingRun(_, _)
LeadingRun(f, chars) ==
    IF chars # <<>> /\ Head(chars) \in f THEN 1 + LeadingRun(f, Tail(chars))
    ELSE 0

\* C16: take_while0(f) (and one_of0, none_of0, whitespace0, which are built
\* on it) never fails; its output is the maximal leading run of characters
\* satisfying f and the rest is what follows the run.  When every character
\* satisfies f the output is the whole input and the rest is empty, so
\* delimited(whitespace0, p, whitespace0) on an input which ends in
\* whitespace leaves an empty rest, as test_bool expects of "   true  ".
C16_TakeWhile0 ==
    /\ Done("take_while0") =>
           /\ result.kind = "Ok"
           /\ Bytes(result.out) =
                  Encode(SubSeq(buf, 1, LeadingRun(parser.f, buf)))
           /\ result.out.s = 0
           /\ result.rest = [s |-> result.out.e, e |-> Len(BufBytes)]
    /\ (pc = "done" /\ parser = json_bool
            /\ buf = <<" ", " ", "t", "r", "u", "e", " ", " ">>) =>
           /\ result.kind = "Ok"
           /\ result.out = TRUE
           /\ SLen(result.rest) = 0

\* ------------------------------------------------------------------- C17
\* The number of leading characters of buf which equal those of lit when
\* only the ASCII letters are folded.
RECURSIVE FoldedMatch(_, _)
FoldedMatch(lit, chars) ==
    IF /\ lit # <<>>
       /\ chars # <<>>
       /\ to_ascii_lowercase(Head(lit)) = to_ascii_lowercase(Head(chars))
    THEN 1 + FoldedMatch(Tail(lit), Tail(chars))
    ELSE 0

\* The success half of C17: anycase(L) succeeds exactly when the leading
\* characters of the input equal those of L under ASCII-only case folding
\* (a difference of non-ASCII case is a failure), and then consumes len(L)
\* bytes and returns the input's own spelling.
AnycaseSuccess ==
    LET L == parser.lit
    IN  /\ result.kind # "Panic"
        /\ result.kind = "Ok" <=> FoldedMatch(L, buf) = Len(L)
        /\ result.kind = "Ok" =>
               /\ result.out = [s |-> 0, e |-> ByteLen(L)]
               /\ Bytes(result.out) = Encode(SubSeq(buf, 1, Len(L)))
               /\ result.rest = [s |-> ByteLen(L), e |-> Len(BufBytes)]

\* C17 as stated: the success half, and an input shorter than L (in
\* characters and in bytes) fails with end-of-input while a mismatching
\* character fails with unmatched.
C17_AnycaseStated ==
    Done("anycase") =>
        LET L == parser.lit
            m == FoldedMatch(L, buf)
        IN  /\ AnycaseSuccess
            /\ (Len(buf) < Len(L) /\ Len(BufBytes) < ByteLen(L)) =>
                   result.kind = "Err" /\ result.err[1].message.kind = "End"
            /\ (m < Len(L) /\ m < Len(buf)) =>
                   /\ result.kind = "Err"
                   /\ result.err[1].message.kind = "Unmatched"

\* C17 (amended): the success half; an input which runs out before L does,
\* every character of it matching, fails with end-of-input; the first
\* mismatching character fails with unmatched, whether or not the input is
\* also shorter than L, and the span is the input up to and including that
\* character.
C17_Anycase ==
    Done("anycase") =>
        LET L == parser.lit
            m == FoldedMatch(L, buf)
        IN  /\ AnycaseSuccess
            /\ (m < Len(L) /\ m = Len(buf)) =>
                   result.kind = "Err" /\ result.err[1].message.kind = "End"
            /\ (m < Len(L) /\ m < Len(buf)) =>
                   /\ result.kind = "Err"
                   /\ result.err[1].message =
                          ErrorUnmatched(
                              [s |-> 0, e |-> ByteLen(SubSeq(buf, 1, m + 1))])

\* A literal matched in another spelling, with input left over.
C17_Witness ==
    /\ Done("anycase")
    /\ result.kind = "Ok"
    /\ Len(parser.lit) = 2
    /\ SubSeq(buf, 1, 2) # parser.lit
    /\ SLen(result.rest) > 0

\* ------------------------------------------------------------------- C18
\* The number a run of decimal digits denotes.
RECURSIVE DecValue(_)
DecValue(chars) ==
    IF chars = <<>> THEN 0
    ELSE 10 * DecValue(SubSeq(chars, 1, Len(chars) - 1))
            + to_digit(chars[Len(chars)])

\* C18: let D be the maximal leading run of decimal digits of the input.
\* An unsigned integer parser fails without a conversion error when D is
\* empty; returns the value of D and the rest after D when the value fits
\* the type, leading zeros accepted; and fails with the integer conversion
\* error whose span is exactly D when the value overflows the type: no
\* shorter prefix of D is accepted instead.
C18_Uint ==
    Done("uint") =>
        LET n == LeadingRun(DecDigits, buf)
            D == SubSeq(buf, 1, n)
        IN  IF n = 0
            THEN /\ result.kind = "Err"
                 /\ result.err[1].message.kind # "ParseInt"
            ELSE IF DecValue(D) <= 2 ^ parser.bits - 1
            THEN /\ result.kind = "Ok"
                 /\ result.out = DecValue(D)
                 /\ result.rest = [s |-> n, e |-> Len(BufBytes)]
            ELSE /\ result.kind = "Err"
                 /\ result.err[1].message.kind = "ParseInt"
                 /\ result.err[1].message.span = [s |-> 0, e |-> n]

\* A run which overflows u8, followed by other characters.
C18_Witness ==
    /\ Done("uint")
    /\ parser.bits = 8
    /\ buf = <<"2", "5", "6", "a", "7">>
    /\ result.kind = "Err"
    /\ result.err[1].message.kind = "ParseInt"

\* ------------------------------------------------------------------- C19
\* C19: the float parser accepts inf, infinity and nan in any casing, each
\* with or without one leading sign, and consumes the whole literal: parsing
\* exactly that text succeeds and the rest is empty ("iNf" and "-inF" leave
\* "", and "infinity" leaves "" and not "inity").
C19_SpecialFloats ==
    (Done("f64") /\ buf \in SpecialFloats) =>
        /\ result.kind = "Ok"
        /\ SLen(result.rest) = 0
        /\ result.out.class \in {"infinite", "nan"}
        /\ result.out.negative <=> Head(buf) = "-"

\* ------------------------------------------------------------------- C20
\* chars without its first n elements.
Drop(chars, n) == SubSeq(chars, n + 1, Len(chars))

\* 1 when chars starts with a sign, else 0.
SignLen(chars) == IF chars # <<>> /\ Head(chars) \in {"+", "-"} THEN 1 ELSE 0

\* The length of the leading body digits '.' digits?, digits? '.' digits or
\* digits of chars; 0 when there is none.
BodyLen(chars) ==
    LET d1 == LeadingRun(DecDigits, chars)
        dot == Len(chars) > d1 /\ chars[d1 + 1] = "."
        d2 == IF dot THEN LeadingRun(DecDigits, Drop(chars, d1 + 1)) ELSE 0
    IN  IF dot /\ d1 + d2 >= 1 THEN d1 + 1 + d2 ELSE d1

\* The length of the leading exponent [eE][+-]?digits of chars; 0 when there
\* is none.
ExponentLen(chars) ==
    IF chars # <<>> /\ Head(chars) \in {"e", "E"}
    THEN LET sg == SignLen(Tail(chars))
             k == LeadingRun(DecDigits, Drop(chars, 1 + sg))
         IN  IF k >= 1 THEN 1 + sg + k ELSE 0
    ELSE 0

\* The input is not one of the literals inf, infinity, nan after its sign.
NumericInput ==
    LET body == Drop(buf, SignLen(buf))
    IN  /\ FoldedMatch(<<"i", "n", "f">>, body) < 3
        /\ FoldedMatch(<<"n", "a", "n">>, body) < 3

\* C20: on numeric input the float parser consumes exactly the prefix made
\* of an optional sign, a body digits '.' digits?, digits? '.' digits or
\* digits, and an optional exponent [eE][+-]?digits.  An exponent marker
\* without a digit after it stays in the rest with all that follows; a lone
\* "." or a lone sign fails; the rest is what follows the consumed prefix
\* ("-2E-10rest" leaves "rest", "5." and ".5" leave "").
C20_FloatNumber ==
    (Done("f64") /\ NumericInput) =>
        LET sg == SignLen(buf)
            body == BodyLen(Drop(buf, sg))
            exponent == ExponentLen(Drop(buf, sg + body))
        IN  IF body = 0 THEN result.kind = "Err"
            ELSE /\ result.kind = "Ok"
                 /\ result.rest =
                        [s |-> sg + body + exponent, e |-> Len(BufBytes)]
                 /\ result.out.class = "finite"
                 /\ result.out.negative <=> Head(buf) = "-"
                 /\ (exponent = 0) => result.out.exp = 0

\* A signed number with an exponent and text after it; a number whose
\* exponent marker has no digits is covered by the formula on "2e+x".
C20_Witness ==
    /\ Done("f64")
    /\ buf = <<"-", "2", "E", "-", "1", "0", "r", "e", "s", "t">>
    /\ result.kind = "Ok"
    /\ result.rest = [s |-> 6, e |-> 10]
    /\ result.out.exp = 0 - 10

\* ------------------------------------------------------------------- C21
\* The character an escape letter stands for after a backslash.
Unescaped(ch) ==
    CASE ch = "dquote" -> "dquote" [] ch = "bslash" -> "bslash"
      [] ch = "/" -> "/" [] ch = "b" -> "BS" [] ch = "f" -> "FF"
      [] ch = "n" -> "LF" [] ch = "r" -> "CR" [] ch = "t" -> "TAB"

\* The content of a quoted text read from its k-th character on: the
\* unescaped characters up to the closing quote and where that quote is.
RECURSIVE Unquote(_, _, _)
Unquote(chars, k, out) ==
    IF k > Len(chars) THEN [ok |-> FALSE]
    ELSE IF chars[k] = "dquote" THEN [ok |-> TRUE, out |-> out, end |-> k]
    ELSE IF chars[k] = "bslash"
    THEN IF k < Len(chars)
            /\ chars[k + 1] \in {"dquote", "bslash", "/", "b", "f", "n", "r", "t"}
         THEN Unquote(chars, k + 2, Append(out, Unescaped(chars[k + 1])))
         ELSE [ok |-> FALSE]
    ELSE Unquote(chars, k + 1, Append(out, chars[k]))

\* C21: the quoted-string grammar delimited('"', fold(choice(escapes mapped
\* to their characters, none_of_char(['\\', '"'])), String::new(), push), '"')
\* applied to a double-quoted text yields the unescaped content, each
\* two-character escape become its single character and every other
\* character copied, and the input after the closing quote; for the quoted
\* text a string with \"escapes\n the rest is empty.
C21_JsonString ==
    (pc = "done" /\ parser = json_string /\ buf # <<>> /\ buf[1] = "dquote"
        /\ Unquote(buf, 2, <<>>).ok) =>
        LET q == Unquote(buf, 2, <<>>)
        IN  /\ result.kind = "Ok"
            /\ result.out = q.out
            /\ result.rest =
                   [s |-> ByteLen(SubSeq(buf, 1, q.end)), e |-> Len(BufBytes)]

\* ------------------------------------------------------------------- C22
\* The needle lies within the addresses of the haystack.
Within(needle, haystack) ==
    /\ haystack.ptr <= needle.ptr
    /\ needle.ptr + needle.len <= haystack.ptr + haystack.len

\* The bytes of a slice of buf, which lies at address addr.
StrBytes(str, addr) ==
    SubSeq(BufBytes, str.ptr - addr + 1, str.ptr - addr + str.len)

\* from_substring returned the span of the needle in the haystack, and the
\* haystack indexed by the span is the needle.
FoundAt(needle, haystack, addr) ==
    /\ result.kind = "Value"
    /\ result.v.some
    /\ result.v.v.start = needle.ptr - haystack.ptr
    /\ result.v.v.end = result.v.v.start + needle.len
    /\ needle.of = "buf" =>
           StrBytes(needle, addr) =
               SubSeq(StrBytes(haystack, addr), result.v.v.start + 1,
                      result.v.v.end)

\* C22 as stated: from_substring(needle, haystack) returns Some(span) with
\* haystack[span] == needle whenever needle is a sub-slice of haystack (an
\* empty one at offset 0 or at haystack.len() included), returns None
\* whenever needle lies in a different buffer or outside haystack, and
\* never panics.
C22_FromSubstringStated ==
    Done("Span::from_substring") =>
        LET n == parser.needle
            h == parser.haystack
        IN  /\ result.kind # "Panic"
            /\ (n.of = "buf" /\ Within(n, h)) => FoundAt(n, h, parser.addr)
            /\ (n.of = "other" \/ ~Within(n, h)) => result = Value(None)

\* C22 (amended): from_substring decides by the addresses alone.  It returns
\* Some(span) with haystack[span] == needle exactly when the addresses of
\* needle lie within those of haystack, and None otherwise; it never
\* panics.  A needle of another buffer is therefore refused when it is not
\* empty, while an empty one which lies where the haystack ends is found at
\* haystack.len().
C22_FromSubstring ==
    Done("Span::from_substring") =>
        LET n == parser.needle
            h == parser.haystack
        IN  /\ result.kind # "Panic"
            /\ Within(n, h) => FoundAt(n, h, parser.addr)
            /\ ~Within(n, h) => result = Value(None)
            /\ (n.of = "other" /\ n.len > 0) => result = Value(None)

\* A needle of two bytes or more found inside a haystack which is itself a
\* proper slice of the buffer.
C22_Witness ==
    /\ Done("Span::from_substring")
    /\ parser.haystack.len < Len(BufBytes)
    /\ parser.needle.len >= 2
    /\ result.kind = "Value"
    /\ result.v = Some([start |-> 1, end |-> 1 + parser.needle.len])

\* ------------------------------------------------------------------- C23
\* C23: consume(p) returns the prefix p consumed: whenever p succeeds with
\* rest r, consume(p) succeeds with (s[..len(s) - len(r)], r), also when p
\* consumed no character (the output is then the empty prefix); when p
\* fails, its error is returned unchanged.
C23_Consume ==
    Done("consume") =>
        LET r == parse(parser.p, Whole)
        IN  /\ r.kind = "Ok" =>
                  /\ result.kind = "Ok"
                  /\ result.out = Index(Whole, 0, SLen(Whole) - SLen(r.rest))
                  /\ result.rest = r.rest
            /\ r.kind = "Err" => result = r

\* ------------------------------------------------------------------- C24
\* C24: when every alternative of a choice fails on the input, the error
\* returned is exactly the error of the last alternative applied to that
\* input: the errors of the earlier alternatives are discarded and no
\* context is added; every alternative was applied, in order, to the input.
C24_ChoiceLastError ==
    Done("choice") =>
        LET ps == parser.ps
            r(i) == parse(ps[i], Whole)
        IN  (\A i \in 1..Len(ps) : r(i).kind = "Err") =>
                /\ result.kind = "Err"
                /\ result.err = r(Len(ps)).err
                /\ Len(result.calls) = Len(ps)
                /\ \A i \in 1..Len(ps) :
                      result.calls[i] = [index |-> i, input |-> Whole]

\* C24 witness: both alternatives have failed with different errors and the
\* choice has returned the second one's.
C24_Witness ==
    /\ Done("choice")
    /\ result.kind = "Err"
    /\ parse(parser.ps[1], Whole).kind = "Err"
    /\ parse(parser.ps[1], Whole).err # result.err
    /\ parse(parser.ps[Len(parser.ps)], Whole).err = result.err

\* ------------------------------------------------------------------- C25
\* The messages delimited gives to the failures of its three parts.
PartMessages ==
    <<"delimited: left parser failed", "delimited: content parser failed",
      "delimited: right parser failed">>

\* C25: when delimited(left, content, right) fails, the failure is that of
\* the first failing part in the order left, content, right; later parts
\* are not applied; index 0 of the error stack is that part's original cause
\* unchanged, and at most one Context, naming the failed part, is added
\* above it; for literal "(", zero-or-more alphabetic, literal ")" on
\* "(notclosed" the innermost cause is end-of-input just past "notclosed".
C25_DelimitedFailure ==
    Done("delimited") =>
        LET ps == <<parser.left, parser.content, parser.right>>
            calls == result.calls
            k == Len(calls)
            r(i) == parse(ps[i], calls[i].input)
        IN  /\ result.kind = "Err" =>
                  /\ k \in 1..3
                  /\ calls[1] = [index |-> 1, input |-> Whole]
                  /\ \A i \in 2..k :
                        /\ r(i - 1).kind = "Ok"
                        /\ calls[i] = [index |-> i, input |-> r(i - 1).rest]
                  /\ r(k).kind = "Err"
                  /\ result.err[1] = r(k).err[1]
                  /\ \/ result.err = r(k).err
                     \/ result.err =
                            Append(r(k).err, from_message(PartMessages[k]))
            /\ (parser = ParenWord
                   /\ buf = <<"(", "n", "o", "t", "c", "l", "o", "s", "e", "d">>) =>
                  /\ result.kind = "Err"
                  /\ result.err[1] = ContextFromError(ErrorEnd(Whole))

\* ------------------------------------------------------------------- C26
\* C26: take_while(f) succeeds if and only if the first character of the
\* input satisfies f, and then returns the maximal leading run of characters
\* satisfying f and the rest after it; when it fails the error is
\* end-of-input only when the input is empty, and unmatched when the input
\* is not empty but its first character does not satisfy f.
C26_TakeWhile ==
    Done("take_while") =>
        LET run == LeadingRun(parser.f, buf)
        IN  /\ result.kind \in {"Ok", "Err"}
            /\ result.kind = "Ok" <=> run > 0
            /\ result.kind = "Ok" =>
                  /\ Bytes(result.out) = Encode(SubSeq(buf, 1, run))
                  /\ result.out.s = 0
                  /\ result.rest = [s |-> result.out.e, e |-> Len(BufBytes)]
            /\ result.kind = "Err" =>
                  /\ Len(result.err) = 1
                  /\ buf = <<>> => result.err[1].message.kind = "End"
                  /\ buf # <<>> => result.err[1].message.kind = "Unmatched"

\* ------------------------------------------------------------------- C27
\* Every successful application of p to an end of the buffer consumes at
\* least one character.
Progress(p) ==
    \A i \in Boundaries :
        LET input == Index(Whole, i, SLen(Whole))
            r == parse(p, input)
        IN  r.kind = "Ok" => SLen(r.rest) < SLen(input)

\* The successful applications of the inner parser so far.
Applications == Len(acc) - Len(parser.acc)

\* C27: fold terminates under progress.  If every successful application of
\* p consumes at least one character, then the input left strictly shrinks
\* on every iteration, there are at most len(input) successful applications
\* (followed by the one failing application which ends the loop), and the
\* call returns.
C27_FoldTerminates ==
    /\ []((pc = "fold" /\ Progress(parser.p)) => Applications <= Len(buf))
    /\ [][(pc = "fold" /\ pc' = "fold" /\ Progress(parser.p)) =>
              /\ SLen(cur') < SLen(cur)
              /\ Len(acc') = Len(acc) + 1]_vars
    /\ (pc = "fold" /\ Progress(parser.p)) ~> (pc = "done")

\* C27 witness: a fold over a parser which always consumes has applied it
\* successfully to every character of an input of three characters and has
\* returned after the failing application on the empty rest.
C27_Witness ==
    /\ Done("fold")
    /\ Progress(parser.p)
    /\ Len(buf) = 3
    /\ result.kind = "Ok"
    /\ Applications = 3
    /\ SLen(cur) = 0

\* ------------------------------------------------------------------- C28
\* C28: fold retains no state between calls.  Every call starts from a fresh
\* copy of the seed; called any number of times, on any inputs, the same fold
\* parser returns for each input the (accumulator, rest) a first call on
\* that input returns; the seed the parser holds is never modified.
C28_FoldStateless ==
    /\ [](Done("fold") =>
             LET first == fold(parser.p, parser.acc, Whole)
             IN  /\ result.kind = first.kind
                 /\ result.kind = "Ok" =>
                       /\ result.out = first.out
                       /\ result.rest = first.rest)
    /\ [][(pc # "fold" /\ pc' = "fold") =>
              /\ acc' = parser'.acc
              /\ cur' = [s |-> 0, e |-> ByteLen(buf')]]_vars
    /\ [][(parser.type = "fold" /\ parser'.type = "fold") =>
              parser' = parser]_vars

\* C28 witness: a call which pushed an output on the accumulator has
\* returned, and the next call of the same parser has started from the seed.
C28_Witness ==
    /\ pc = "fold"
    /\ result.kind = "Ok"
    /\ Len(result.out) > Len(parser.acc)
    /\ acc = parser.acc
    /\ cur = Whole
====
